---- MODULE Spec2Model ----
(***************************************************************************)
(* Easy21 (ucl-compm050/easy21): the environment of easy21.py (draw,       *)
(* State.new / hit / stick / value, step) and the Monte-Carlo control loop *)
(* of monte-carlo.py (N, V, epsilon, next_action, trial, update).          *)
(***************************************************************************)
EXTENDS Integers, Sequences, FiniteSets

VARIABLES
    state,      \* the State object the caller of the environment holds
    pc,         \* "idle", or "stick" while State.stick's dealer loop runs
    dealer,     \* the local `dealer` of State.stick
    last        \* the call that completed last (none while one is running):
                \* operation, argument, outcome

VARIABLES
    N,          \* monte-carlo.py: visit counts, keyed by <<state>> and <<state, action>>
    V,          \* monte-carlo.py: estimated values, keyed by <<state, action>>
    tpc,        \* where trial() is: "idle", "loop", "returned", "raised"
    tstate,     \* trial's local `state`
    states,     \* trial's local `states`
    reward,     \* trial's local `reward`: <<>> while unbound, else <<r>>
    counted,    \* the pairs whose counters the running trial has incremented
    texc,       \* the outcome of the step call that ended the last trial
    upd,        \* the last call of update: arguments and V before it
    trials,     \* the number of trials started
    alphaOut,   \* the last evaluation of alpha: its pair and its outcome
    picked      \* the last direct call of next_action: what random() and
                \* choice() returned, whether it explored, and its result

VARIABLES
    chosen,     \* the (state, action) pair chosen at the latest step of the
                \* running episode, <<>> before its first step
    mark,       \* one earlier pair of the running episode, remembered at
                \* will, <<>> while none is remembered
    draws       \* the calls of draw() that hit and stick have made in the
                \* running episode

envVars == <<state, pc, dealer, last>>
epVars == <<chosen, mark, draws>>
mcVars == <<N, V, tpc, tstate, states, reward, counted, texc, upd, trials,
           alphaOut, picked>>
vars == <<state, pc, dealer, last,
          N, V, tpc, tstate, states, reward, counted, texc, upd, trials,
          alphaOut, picked, chosen, mark, draws>>

-----------------------------------------------------------------------------
(* Bounds and program constants *)

MaxTrials == 2      \* trials started in a run
MaxStates == 1      \* distinct start states the trials of a run are dealt
MaxVisits == 2      \* visits a state has had when next_action is tried on it
MaxDraws == 40      \* draws an episode is followed for

MaxCard == 10
RedRoll == 1
ColorRolls == 3
BustLimit == 21
DealerStick == 17
N0 == 100

-----------------------------------------------------------------------------
(* easy21.py *)

Abs(x) == IF x < 0 THEN 0 - x ELSE x

\* draw as it would be with a colour drawn from -1, 0, +1
draw_colourless(value, roll) == value * (roll - 2)

\* draw(): value = randint(1, 10); color = -1 if randint(1, 3) == 1 else +1
draw(value, roll) == value * (IF roll = RedRoll THEN 0 - 1 ELSE 1)

\* every card draw() can return
Cards == {draw(value, roll) : value \in 1..MaxCard, roll \in 1..ColorRolls}

State(player, dlr, terminated) ==
    [player |-> player, dealer |-> dlr, terminated |-> terminated]

\* new as it would be without the absolute value
new_signed(c1, c2) == State(c1, c2, FALSE)

\* State.new(), given the two cards it draws
new(c1, c2) == State(Abs(c1), Abs(c2), FALSE)

\* every State that State.new() can return
NewStates == {new(c1, c2) : c1 \in Cards, c2 \in Cards}

\* hit as it would be if only the upper limit counted as a bust
hit_upper_bust_only(self, card) ==
    IF self.terminated
    THEN self
    ELSE LET player == self.player + card
             bust == player > BustLimit
         IN  State(player, self.dealer, bust)

\* hit as it would be without the early return on a terminated state
hit_no_early_return(self, card) ==
    LET player == self.player + card
        bust == player < 1 \/ player > BustLimit
    IN  State(player, self.dealer, bust)

\* hit as it would be with the card added to the dealer's sum
hit_dealer_side(self, card) ==
    IF self.terminated
    THEN self
    ELSE LET player == self.player + card
             bust == player < 1 \/ player > BustLimit
         IN  State(self.player, self.dealer + card, bust)

\* hit as it would be with a sum of exactly 21 counted as a bust
hit_bust_at_limit(self, card) ==
    IF self.terminated
    THEN self
    ELSE LET player == self.player + card
             bust == player < 1 \/ player >= BustLimit
         IN  State(player, self.dealer, bust)

\* State.hit(), given the card it draws when self is not terminated
hit(self, card) ==
    IF self.terminated
    THEN self
    ELSE LET player == self.player + card
             bust == player < 1 \/ player > BustLimit
         IN  State(player, self.dealer, bust)

\* the loop condition as it would be with the dealer sticking one too early
DealerDraws_one_early(d) == d >= 1 /\ d < DealerStick - 1

\* the loop condition as it would be without the lower limit
DealerDraws_no_floor(d) == d < DealerStick

\* the condition of the dealer's while loop in State.stick
DealerDraws(d) == d >= 1 /\ d < DealerStick

\* value as it would be with the dealer's bust tested before the player's
value_dealer_bust_first(self) ==
    IF ~self.terminated THEN 0
    ELSE IF self.dealer < 1 \/ self.dealer > BustLimit THEN 1
    ELSE IF self.player < 1 \/ self.player > BustLimit THEN 0 - 1
    ELSE IF self.player > self.dealer THEN 1
    ELSE IF self.player = self.dealer THEN 0
    ELSE 0 - 1

\* State.value()
value(self) ==
    IF ~self.terminated THEN 0
    ELSE IF self.player < 1 \/ self.player > BustLimit THEN 0 - 1
    ELSE IF self.dealer < 1 \/ self.dealer > BustLimit THEN 1
    ELSE IF self.player > self.dealer THEN 1
    ELSE IF self.player = self.dealer THEN 0
    ELSE 0 - 1

actions == <<"hit", "stick">>

\* outcomes of a call: a returned value or a raised exception
Return(s, r) ==
    [kind |-> "return", state |-> s, reward |-> r, obj |-> "", attr |-> ""]
Raise(s, obj, attr) ==
    [kind |-> "AttributeError", state |-> s, reward |-> 0,
     obj |-> obj, attr |-> attr]

\* the attribute names a caller passes to step as `action`
ActionNames == {"hit", "stick", "value", "new", "player", "terminated", "double"}

\* type(getattr(state, name)) for the attributes a State has: a method is
\* returned bound, not called
AttrType(name) ==
    CASE name \in {"hit", "stick", "value", "new"} -> "function"
      [] name \in {"player", "dealer"} -> "int"
      [] name = "terminated" -> "bool"
      [] OTHER -> "missing"

\* step as it would be if a terminated state were still paid its value
step_terminal_value(s, action) ==
    IF s.terminated
    THEN Return(s, value(s))
    ELSE IF AttrType(action) = "missing"
         THEN Raise(s, "State", action)
         ELSE Raise(s, AttrType(action), "value")

\* step(state, action): state = getattr(state, action); return state, state.value
step(s, action) ==
    IF s.terminated
    THEN Return(s, 0)
    ELSE IF AttrType(action) = "missing"
         THEN Raise(s, "State", action)
         ELSE Raise(s, AttrType(action), "value")

-----------------------------------------------------------------------------
(* monte-carlo.py *)

\* a defaultdict: a missing key reads as the default, and reading inserts it
Get(d, k) == IF k \in DOMAIN d THEN d[k] ELSE 0
Touch(d, k) == [x \in DOMAIN d \cup {k} |-> Get(d, x)]
Put(d, k, v) == [x \in DOMAIN d \cup {k} |-> IF x = k THEN v ELSE d[x]]
Empty == [x \in {} |-> 0]

\* fractions <<numerator, denominator>> with a positive denominator
Less(f, g) == f[1] * g[2] < g[1] * f[2]

\* the values random() is taken to return, in [0, 1)
RandomValues == {<<0, 1>>, <<1, 2>>, <<199, 200>>}

\* alpha(state, action) = 1 / N[(state, action)]: the fraction, or the
\* ZeroDivisionError of a count of 0
alpha(Nd, s, a) ==
    IF Get(Nd, <<s, a>>) = 0
    THEN [kind |-> "ZeroDivisionError", val |-> <<0, 1>>]
    ELSE [kind |-> "return", val |-> <<1, Get(Nd, <<s, a>>)>>]

\* epsilon as it would be reading the counter of (state, hit) for N[state]
epsilon_pair_key(Nd, s) == <<N0, N0 + Get(Nd, <<s, "hit">>)>>

\* epsilon(state) = N0 / (N0 + N[state])
epsilon(Nd, s) == <<N0, N0 + Get(Nd, <<s>>)>>

\* the greedy choice as it would be with the last maximal action winning
greedy_last_wins(Vd, s) ==
    IF Get(Vd, <<s, actions[2]>>) >= Get(Vd, <<s, actions[1]>>)
    THEN actions[2]
    ELSE actions[1]

\* max(actions, key=lambda a: V[(state, a)]): the first maximal action
greedy(Vd, s) ==
    IF Get(Vd, <<s, actions[2]>>) > Get(Vd, <<s, actions[1]>>)
    THEN actions[2]
    ELSE actions[1]

\* next_action(state), given what random() and choice(actions) return
explores(Nd, s, r) == Less(r, epsilon(Nd, s))
next_action(Nd, Vd, s, r, ch) ==
    IF explores(Nd, s, r) THEN ch ELSE greedy(Vd, s)

\* V after next_action: the greedy branch reads V for both actions
V_read(Nd, Vd, s, r) ==
    IF explores(Nd, s, r)
    THEN Vd
    ELSE Touch(Touch(Vd, <<s, actions[1]>>), <<s, actions[2]>>)

\* the counting as it would be with the pair's counter set from the state's
count_pair_from_state(Nd, s, a) ==
    LET N1 == Put(Nd, <<s>>, Get(Nd, <<s>>) + 1)
    IN  Put(N1, <<s, a>>, Get(N1, <<s>>))

\* the counting as it would be without the increment of the pair
count_state_only(Nd, s, a) == Put(Nd, <<s>>, Get(Nd, <<s>>) + 1)

\* N[state] += 1; N[(state, action)] += 1
count(Nd, s, a) ==
    LET N1 == Put(Nd, <<s>>, Get(Nd, <<s>>) + 1)
    IN  Put(N1, <<s, a>>, Get(N1, <<s, a>>) + 1)

\* update(states, reward): pass; V after the call
update(Vd, Nd, traj, r) == Vd

\* the keys of N that are states, and those that are (state, action) pairs
CountedStates(Nd) == {k \in DOMAIN Nd : Len(k) = 1}
CountedPairs(Nd) == {k \in DOMAIN Nd : Len(k) = 2}

NoAlpha == [called |-> FALSE, key |-> <<>>,
            out |-> [kind |-> "return", val |-> <<0, 1>>]]

NoPick == [called |-> FALSE, r |-> <<0, 1>>, ch |-> "", explored |-> FALSE,
           action |-> ""]

NoUpdate == [called |-> FALSE, states |-> <<>>, reward |-> <<>>, before |-> Empty]

InitMC ==
    /\ N = Empty
    /\ V = Empty
    /\ tpc = "idle"
    /\ tstate = State(0, 0, FALSE)
    /\ states = <<>>
    /\ reward = <<>>
    /\ counted = <<>>
    /\ texc = Return(State(0, 0, FALSE), 0)
    /\ upd = NoUpdate
    /\ trials = 0
    /\ alphaOut = NoAlpha
    /\ picked = NoPick

\* trial(): state = State.new(); states = [state]
TrialBegin ==
    /\ tpc # "loop"
    /\ trials < MaxTrials
    /\ \E s \in NewStates :
          /\ <<s>> \in DOMAIN N \/ Cardinality(CountedStates(N)) < MaxStates
          /\ tstate' = s
          /\ states' = << <<s>> >>
    /\ reward' = <<>>
    /\ counted' = <<>>
    /\ upd' = NoUpdate
    /\ alphaOut' = NoAlpha
    /\ tpc' = "loop"
    /\ trials' = trials + 1
    /\ UNCHANGED <<N, V, texc, picked>>
    /\ UNCHANGED <<envVars, epVars>>

\* trial(): the test of the while loop, and then either one iteration of its
\* body or the call of update that ends the trial; an exception raised by step
\* ends the trial
TrialLoop ==
    /\ tpc = "loop"
    /\ IF tstate.terminated
       THEN /\ upd' = [called |-> TRUE, states |-> states, reward |-> reward,
                       before |-> V]
            /\ V' = update(V, N, states, reward)
            /\ tpc' = "returned"
            /\ UNCHANGED <<N, tstate, states, reward, counted, texc>>
       ELSE \E r \in RandomValues, ch \in {actions[1], actions[2]} :
              LET action == next_action(N, V, tstate, r, ch)
                  out == step(tstate, action)
              IN  /\ V' = V_read(N, V, tstate, r)
                  /\ N' = count(N, tstate, action)
                  /\ counted' = Append(counted, <<tstate, action>>)
                  /\ IF out.kind = "return"
                     THEN /\ tstate' = out.state
                          /\ reward' = <<out.reward>>
                          /\ UNCHANGED <<tpc, texc>>
                     ELSE /\ tpc' = "raised"
                          /\ texc' = out
                          /\ UNCHANGED <<tstate, reward>>
                  /\ UNCHANGED <<states, upd>>
    /\ UNCHANGED <<trials, alphaOut, picked>>
    /\ UNCHANGED <<envVars, epVars>>

\* update(states, reward) called directly after a trial, on the pairs that
\* trial counted and a final reward
CallUpdate ==
    /\ tpc # "loop"
    /\ counted # <<>>
    /\ \E r \in {0 - 1, 0, 1} :
          /\ upd' = [called |-> TRUE, states |-> counted, reward |-> <<r>>,
                     before |-> V]
          /\ V' = update(V, N, counted, r)
    /\ UNCHANGED <<N, tpc, tstate, states, reward, counted, texc, trials,
                   alphaOut, picked>>
    /\ UNCHANGED <<envVars, epVars>>

\* alpha(state, action) called directly after a trial, on a pair that trial
\* counted; alpha reads N[(state, action)]
CallAlpha ==
    /\ tpc # "loop"
    /\ \E i \in 1..Len(counted) :
          /\ alphaOut' = [called |-> TRUE, key |-> counted[i],
                          out |-> alpha(N, counted[i][1], counted[i][2])]
          /\ N' = Touch(N, counted[i])
    /\ UNCHANGED <<V, tpc, tstate, states, reward, counted, texc, upd, trials,
                   picked>>
    /\ UNCHANGED <<envVars, epVars>>

NextMC ==
    \/ TrialBegin
    \/ TrialLoop
    \/ CallUpdate

-----------------------------------------------------------------------------
(* A caller driving the environment *)

NoCall == [op |-> "none", arg |-> State(0, 0, FALSE), action |-> "",
           out |-> Return(State(0, 0, FALSE), 0)]

Call(op, arg, action, out) ==
    [op |-> op, arg |-> arg, action |-> action, out |-> out]

NoPair == <<>>

InitEnv ==
    /\ pc = "idle"
    /\ dealer = 0
    /\ last = NoCall
    /\ chosen = NoPair
    /\ mark = NoPair
    /\ draws = 0

Init ==
    /\ state \in NewStates
    /\ InitEnv
    /\ InitMC

\* state = State.new()
CallNew ==
    /\ pc = "idle"
    /\ \E s \in NewStates :
          /\ state' = s
          /\ last' = Call("new", NoCall.arg, "", Return(s, 0))
    /\ UNCHANGED <<pc, dealer>>
    /\ UNCHANGED <<mcVars, epVars>>

\* state = state.hit(); card is what draw() returns if hit gets to draw
CallHit ==
    /\ pc = "idle"
    /\ \E card \in Cards :
          /\ state' = hit(state, card)
          /\ last' = Call("hit", state, "", Return(hit(state, card), 0))
    /\ UNCHANGED <<pc, dealer>>
    /\ UNCHANGED <<mcVars, epVars>>

\* state = state.stick() on a terminated state
CallStickTerminal ==
    /\ pc = "idle"
    /\ state.terminated
    /\ last' = Call("stick", state, "", Return(state, 0))
    /\ UNCHANGED <<state, pc, dealer>>
    /\ UNCHANGED <<mcVars, epVars>>

\* state.stick() on a state in play: dealer = self.dealer
StickBegin ==
    /\ pc = "idle"
    /\ ~state.terminated
    /\ dealer' = state.dealer
    /\ pc' = "stick"
    /\ last' = NoCall
    /\ UNCHANGED state
    /\ UNCHANGED <<mcVars, epVars>>

\* one iteration of the dealer's loop: dealer += draw()
StickDraw ==
    /\ pc = "stick"
    /\ DealerDraws(dealer)
    /\ \E card \in Cards : dealer' = dealer + card
    /\ UNCHANGED <<state, pc, last>>
    /\ UNCHANGED <<mcVars, epVars>>

\* the loop has ended: return State(player=self.player, dealer=dealer, terminated=True)
StickReturn ==
    /\ pc = "stick"
    /\ ~DealerDraws(dealer)
    /\ state' = State(state.player, dealer, TRUE)
    /\ last' = Call("stick", state, "", Return(State(state.player, dealer, TRUE), 0))
    /\ pc' = "idle"
    /\ dealer' = 0
    /\ UNCHANGED <<mcVars, epVars>>

\* state.value()
CallValue ==
    /\ pc = "idle"
    /\ last' = Call("value", state, "", Return(state, value(state)))
    /\ UNCHANGED <<state, pc, dealer>>
    /\ UNCHANGED <<mcVars, epVars>>

\* state, reward = step(state, action); a raised exception leaves the
\* caller's state as it was
CallStep ==
    /\ pc = "idle"
    /\ \E action \in ActionNames :
          LET out == step(state, action)
          IN  /\ last' = Call("step", state, action, out)
              /\ state' = IF out.kind = "return" THEN out.state ELSE state
    /\ UNCHANGED <<pc, dealer>>
    /\ UNCHANGED <<mcVars, epVars>>

Next ==
    \/ CallNew
    \/ CallHit
    \/ CallStickTerminal
    \/ StickBegin
    \/ StickDraw
    \/ StickReturn
    \/ CallValue
    \/ CallStep

Spec == Init /\ [][Next]_vars

\* the control loop alone: nobody else drives the environment
InitTrial ==
    /\ state = State(0, 0, FALSE)
    /\ InitEnv
    /\ InitMC

SpecMC == InitTrial /\ [][NextMC]_vars

\* trial() called over and over, update never called from outside it
NextTrial ==
    \/ TrialBegin
    \/ TrialLoop

SpecTrial == InitTrial /\ [][NextTrial]_vars

\* the control loop and a caller asking for step sizes
NextAlpha ==
    \/ TrialBegin
    \/ TrialLoop
    \/ CallAlpha

SpecAlpha == InitTrial /\ [][NextAlpha]_vars

-----------------------------------------------------------------------------
(* An episode: a player who starts from State.new() and hits or sticks     *)
(* until the state is terminated                                           *)

\* what `mark` may become at a step: the pair of the step before may be
\* remembered while nothing is
Remember == IF mark = NoPair /\ chosen # NoPair THEN {NoPair, chosen} ELSE {mark}

\* the player chooses hit: state = state.hit()
EpHit ==
    /\ pc = "idle"
    /\ ~state.terminated
    /\ \E card \in Cards : state' = hit(state, card)
    /\ chosen' = <<state, "hit">>
    /\ mark' \in Remember
    /\ UNCHANGED <<pc, dealer, last, draws, mcVars>>

\* the player chooses stick: state.stick() begins
EpStickBegin ==
    /\ pc = "idle"
    /\ ~state.terminated
    /\ chosen' = <<state, "stick">>
    /\ mark' \in Remember
    /\ dealer' = state.dealer
    /\ pc' = "stick"
    /\ UNCHANGED <<state, last, draws, mcVars>>

\* state.stick() returns
EpStickReturn ==
    /\ pc = "stick"
    /\ ~DealerDraws(dealer)
    /\ state' = State(state.player, dealer, TRUE)
    /\ pc' = "idle"
    /\ dealer' = 0
    /\ UNCHANGED <<last, mcVars, epVars>>

NextEpisode ==
    \/ EpHit
    \/ EpStickBegin
    \/ StickDraw
    \/ EpStickReturn

SpecEpisode == Init /\ [][NextEpisode]_vars

-----------------------------------------------------------------------------
(* An episode with its draws counted: the two cards of State.new() are     *)
(* not counted, each call of draw() by hit and by the dealer's loop is     *)

\* state = state.hit() on a state in play: one draw
DrawHit ==
    /\ pc = "idle"
    /\ ~state.terminated
    /\ draws < MaxDraws
    /\ \E card \in Cards : state' = hit(state, card)
    /\ draws' = draws + 1
    /\ UNCHANGED <<pc, dealer, last, chosen, mark, mcVars>>

\* state.stick() on a state in play begins: dealer = self.dealer
DrawStickBegin ==
    /\ pc = "idle"
    /\ ~state.terminated
    /\ dealer' = state.dealer
    /\ pc' = "stick"
    /\ UNCHANGED <<state, last, epVars, mcVars>>

\* one iteration of the dealer's loop: dealer += draw()
DrawStickDraw ==
    /\ pc = "stick"
    /\ DealerDraws(dealer)
    /\ draws < MaxDraws
    /\ \E card \in Cards : dealer' = dealer + card
    /\ draws' = draws + 1
    /\ UNCHANGED <<state, pc, last, chosen, mark, mcVars>>

NextDraws ==
    \/ DrawHit
    \/ DrawStickBegin
    \/ DrawStickDraw
    \/ EpStickReturn

SpecDraws == Init /\ [][NextDraws]_vars

-----------------------------------------------------------------------------
(* The behaviour policy alone: next_action on a state with given visit     *)
(* count and given estimates for its two actions                           *)

\* the estimates tried: the returns an episode can have
QValues == {0 - 1, 0, 1}

InitPolicy ==
    /\ state = State(0, 0, FALSE)
    /\ InitEnv
    /\ tpc = "idle"
    /\ states = <<>>
    /\ reward = <<>>
    /\ counted = <<>>
    /\ texc = Return(State(0, 0, FALSE), 0)
    /\ upd = NoUpdate
    /\ trials = 0
    /\ alphaOut = NoAlpha
    /\ picked = NoPick
    /\ tstate \in NewStates
    /\ \E n \in 0..MaxVisits :
          N = IF n = 0 THEN Empty
              ELSE Put(Put(Empty, <<tstate>>, n), <<tstate, actions[1]>>, n)
    /\ \E qh \in QValues, qs \in QValues :
          V = Put(Put(Empty, <<tstate, actions[1]>>, qh),
                  <<tstate, actions[2]>>, qs)

\* action = next_action(state); epsilon reads N[state], the greedy branch
\* reads V for both actions
CallNextAction ==
    /\ \E r \in RandomValues, ch \in {actions[1], actions[2]} :
          /\ picked' = [called |-> TRUE, r |-> r, ch |-> ch,
                        explored |-> explores(N, tstate, r),
                        action |-> next_action(N, V, tstate, r, ch)]
          /\ V' = V_read(N, V, tstate, r)
    /\ N' = Touch(N, <<tstate>>)
    /\ UNCHANGED <<tpc, tstate, states, reward, counted, texc, upd, trials,
                   alphaOut>>
    /\ UNCHANGED <<envVars, epVars>>

NextPolicy == CallNextAction

SpecPolicy == InitPolicy /\ [][NextPolicy]_vars

-----------------------------------------------------------------------------
(* A caller building State objects directly (State is a plain dataclass)   *)
(* and asking for their value                                              *)

\* the sums a State of a game can hold: one card below 1, one card above 21
Sums == (1 - MaxCard)..(BustLimit + MaxCard)

AnyStates == {State(p, d, t) : p \in Sums, d \in Sums, t \in BOOLEAN}

InitValue ==
    /\ state \in AnyStates
    /\ InitEnv
    /\ InitMC

NextValue == CallValue

SpecValue == InitValue /\ [][NextValue]_vars

-----------------------------------------------------------------------------
(* Properties of the environment *)

InPlay(s) == ~s.terminated
InRange(x) == 1 <= x /\ x <= 21

\* C1: step on a state in play with action hit or stick returns the pair
\* (s', value(s')), s' being the State the named transition produces from s
\* and the reward one of -1, 0, +1.
C1_StepReturnsTransition ==
    (last.op = "step" /\ InPlay(last.arg) /\ last.action \in {"hit", "stick"})
    => /\ last.out.kind = "return"
       /\ last.action = "hit"
            => \E card \in Cards : last.out.state = hit(last.arg, card)
       /\ last.action = "stick"
            => /\ last.out.state.terminated
               /\ last.out.state.player = last.arg.player
               /\ ~InRange(last.out.state.dealer) \/ last.out.state.dealer >= 17
       /\ last.out.reward = value(last.out.state)
       /\ last.out.reward \in {0 - 1, 0, 1}

\* C2: step on a terminated state returns that same state and reward 0,
\* whatever the action, and leaves the caller holding the same state, so
\* that every later step does the same.
C2_TerminalAbsorbing ==
    (last.op = "step" /\ last.arg.terminated)
    => /\ last.out.kind = "return"
       /\ last.out.state = last.arg
       /\ last.out.reward = 0
       /\ state = last.arg

C2_Witness ==
    /\ last.op = "step"
    /\ last.action = "stick"
    /\ last.arg.terminated
    /\ last.arg.player > 21
    /\ last.out.reward = 0

\* C3: a state in play, reached from State.new() by hit and stick, has both
\* sums in 1..21; a sum outside 1..21 is only held by a terminated state.
C3_InPlayInRange ==
    /\ InPlay(state) => InRange(state.player) /\ InRange(state.dealer)
    /\ last.op \in {"new", "hit", "stick"} /\ InPlay(last.out.state)
         => InRange(last.out.state.player) /\ InRange(last.out.state.dealer)

C3_Witness ==
    /\ last.op = "hit"
    /\ InPlay(last.arg)
    /\ last.arg.player = 5
    /\ state.player < 1
    /\ state.terminated

\* C4: stick on a state in play draws for the dealer exactly while the
\* dealer's total is in 1..16, and returns a terminated state whose
\* dealer sum is at least 17 or below 1.
C4_DealerPolicy ==
    /\ [](last.op = "stick" /\ InPlay(last.arg)
            => /\ last.out.state.terminated
               /\ last.out.state.dealer >= 17 \/ last.out.state.dealer < 1)
    /\ [][ /\ pc = "stick" /\ pc' = "stick" => dealer \in 1..16
           /\ pc = "stick" /\ pc' = "idle" => dealer \notin 1..16 ]_vars

C4_Witness ==
    /\ last.op = "stick"
    /\ last.arg = State(10, 7, FALSE)
    /\ last.out.state = State(10, 18, TRUE)

\* C5: value is 0 for a state in play; for a terminated state it is -1
\* when the player's sum is outside 1..21, else +1 when the dealer's sum is
\* outside 1..21, else +1, 0 or -1 as the player's sum is above, equal to or
\* below the dealer's.
C5_ValueTable ==
    last.op = "value" =>
      LET s == last.arg
          v == last.out.reward
          playerBust == ~InRange(s.player)
          dealerBust == ~InRange(s.dealer)
      IN  /\ last.out.kind = "return"
          /\ v \in {0 - 1, 0, 1}
          /\ InPlay(s) => v = 0
          /\ s.terminated /\ playerBust => v = 0 - 1
          /\ s.terminated /\ ~playerBust /\ dealerBust => v = 1
          /\ s.terminated /\ ~playerBust /\ ~dealerBust /\ s.player > s.dealer
               => v = 1
          /\ s.terminated /\ ~playerBust /\ ~dealerBust /\ s.player = s.dealer
               => v = 0
          /\ s.terminated /\ ~playerBust /\ ~dealerBust /\ s.player < s.dealer
               => v = 0 - 1

C5_Witness ==
    /\ last.op = "value"
    /\ last.arg = State(25, 23, TRUE)
    /\ last.out.reward = 0 - 1

\* C7: hit and stick on a terminated state return that same state and
\* leave the caller holding it.
C7_TerminalNoOp ==
    (last.op \in {"hit", "stick"} /\ last.arg.terminated)
    => /\ last.out.kind = "return"
       /\ last.out.state = last.arg
       /\ state = last.arg
       /\ pc = "idle"

C7_Witness ==
    /\ last.op = "hit"
    /\ last.arg.terminated
    /\ InRange(last.arg.player)
    /\ state = last.arg

\* C8: step on a state in play with an action other than hit and stick
\* returns no pair, and its outcome differs from the outcome of step with
\* hit and with stick on the same state.
C8_InvalidActionFails ==
    (last.op = "step" /\ InPlay(last.arg) /\ last.action \notin {"hit", "stick"})
    => /\ last.out.kind # "return"
       /\ last.out # step(last.arg, "hit")
       /\ last.out # step(last.arg, "stick")

-----------------------------------------------------------------------------
(* Properties of the control loop *)

\* C6: after update(trajectory, final_reward), for every pair (s, a) of the
\* trajectory Q(s, a) = old Q(s, a) + (final_reward - old Q(s, a)) / N(s, a),
\* that is N(s, a) * Q(s, a) = (N(s, a) - 1) * old Q(s, a) + final_reward.
C6_IncrementalMean ==
    (upd.called /\ upd.reward # <<>>)
    => \A i \in 1..Len(upd.states) :
         LET k == upd.states[i]
             n == Get(N, k)
         IN  /\ n >= 1
             /\ n * Get(V, k) = (n - 1) * Get(upd.before, k) + upd.reward[1]

\* C9: in trial, once the loop body has run, the trajectory `states` is the
\* sequence of the (state, action) pairs whose counters the episode has
\* incremented, in order; and when the episode is over, update has been
\* handed that trajectory.
C9_TrajectoryIsCounted ==
    /\ counted # <<>> => states = counted
    /\ (tpc \in {"returned", "raised"} /\ counted # <<>>)
         => upd.called /\ upd.states = counted

-----------------------------------------------------------------------------
(* Properties of episodes *)

\* C10 as first stated: no pair chosen in an episode equals a pair chosen
\* earlier in the same episode.
C10_NoPairRecurs == mark # NoPair => chosen # mark

\* C10: the pairs chosen at successive steps of an episode differ: a hit
\* leaves a player_sum other than the one it was chosen at, and a stick
\* leaves a terminated state, from which no pair is chosen.
C10_SuccessivePairsDiffer ==
    (chosen # NoPair /\ pc = "idle")
    => /\ chosen[2] = "hit" => state.player # chosen[1].player
       /\ chosen[2] = "stick" => state.terminated

C10_Witness ==
    /\ chosen # NoPair
    /\ chosen[2] = "hit"
    /\ mark # NoPair
    /\ mark # chosen
    /\ ~state.terminated
    /\ state = mark[1]

-----------------------------------------------------------------------------
(* Further properties of the environment *)

\* C17: on a state in play, hit returns a state with the same dealer_sum
\* and a player_sum that differs by one card value, in -10..-1 or 1..10;
\* stick returns a state with the same player_sum.
C17_Frame ==
    /\ (last.op = "hit" /\ InPlay(last.arg))
         => /\ last.out.state.dealer = last.arg.dealer
            /\ last.out.state.player - last.arg.player
                 \in ((0 - 10)..(0 - 1)) \cup (1..10)
    /\ (last.op = "stick" /\ InPlay(last.arg))
         => last.out.state.player = last.arg.player

C17_Witness ==
    /\ last.op = "hit"
    /\ last.arg = State(12, 4, FALSE)
    /\ last.out.state = State(2, 4, FALSE)

\* C19: a reachable state in play still holds the dealer's first card,
\* 1 <= dealer_sum <= 10; a reachable terminated state has
\* -9 <= dealer_sum <= 26 and -9 <= player_sum <= 31.
C19_SumRanges ==
    /\ InPlay(state) => 1 <= state.dealer /\ state.dealer <= 10
    /\ state.terminated
         => /\ 0 - 9 <= state.dealer /\ state.dealer <= 26
            /\ 0 - 9 <= state.player /\ state.player <= 31

C19_Witness ==
    /\ last.op = "stick"
    /\ InPlay(last.arg)
    /\ state.terminated
    /\ state.dealer = 26

\* C20: a hit on a state in play that returns a terminated state returns
\* one whose player_sum is outside 1..21 and whose value is -1; a
\* terminated state of value +1 or 0 is returned by stick alone.
C20_HitEndsByBust ==
    /\ (last.op = "hit" /\ InPlay(last.arg) /\ last.out.state.terminated)
         => /\ ~InRange(last.out.state.player)
            /\ value(last.out.state) = 0 - 1
    /\ (last.op \in {"new", "hit", "stick"} /\ InPlay(last.arg)
          /\ last.out.state.terminated /\ value(last.out.state) \in {0, 1})
         => last.op = "stick"

C20_Witness ==
    /\ last.op = "hit"
    /\ last.arg = State(21, 10, FALSE)
    /\ last.out.state = State(22, 10, TRUE)
    /\ value(state) = 0 - 1

-----------------------------------------------------------------------------
(* Further properties of the control loop *)

\* C12: an episode, once started, runs to its natural end: when trial is
\* over it has returned, and its state is terminated.
C12_EpisodeEndsTerminal ==
    (trials > 0 /\ tpc # "loop") => (tpc = "returned" /\ tstate.terminated)

\* C14: every count starts at zero; no count ever decreases; a step of an
\* episode adds exactly 1 to N(s) and to N(s, a) for its state s and action
\* a, and every other count keeps its value.
C14_CountsGrowByOne ==
    /\ \A s \in NewStates :
         /\ Get(N, <<s>>) = 0
         /\ \A a \in {"hit", "stick"} : Get(N, <<s, a>>) = 0
    /\ [][ LET keys == DOMAIN N \cup DOMAIN N'
           IN  /\ \A k \in keys : Get(N', k) >= Get(N, k)
               /\ IF Len(counted') = Len(counted) + 1
                  THEN LET p == counted'[Len(counted')]
                       IN  \A k \in keys :
                             Get(N', k) = Get(N, k)
                               + (IF k = <<p[1]>> \/ k = p THEN 1 ELSE 0)
                  ELSE \A k \in keys : Get(N', k) = Get(N, k) ]_vars

C14_Witness ==
    /\ Len(counted) = 1
    /\ Get(N, <<counted[1][1]>>) = 2
    /\ Get(N, counted[1]) = 1

\* the states that have a counter in Nd; every other state's count reads 0
Visited(Nd) == {k[1] : k \in DOMAIN Nd}

\* C16: epsilon(state) = 100 / (100 + N(state)): it is 1 when N(state) = 0,
\* lies in (0, 1], and is strictly smaller after every further visit.
C16_EpsilonDecays ==
    /\ [](\A s \in Visited(N) \cup {tstate} :
            LET e == epsilon(N, s)
            IN  /\ e[1] * (100 + Get(N, <<s>>)) = 100 * e[2]
                /\ Less(<<0, 1>>, e)
                /\ ~Less(<<1, 1>>, e)
                /\ Get(N, <<s>>) = 0 => e[1] = e[2])
    /\ [][ \A s \in Visited(N') :
             Get(N', <<s>>) > Get(N, <<s>>)
               => Less(epsilon(N', s), epsilon(N, s)) ]_vars

C16_Witness ==
    \E k \in CountedStates(N) :
       /\ N[k] = 2
       /\ Get(N, <<k[1], "stick">>) = 2
       /\ epsilon(N, k[1]) = <<100, 102>>

\* C18: between loop iterations N(s) = N(s, hit) + N(s, stick) for every
\* state s, and no terminated state or pair with one has a count above 0.
C18_StateCountIsSum ==
    \A k \in DOMAIN N :
       /\ Get(N, <<k[1]>>)
            = Get(N, <<k[1], "hit">>) + Get(N, <<k[1], "stick">>)
       /\ k[1].terminated => N[k] = 0

C18_Witness ==
    \E k \in CountedStates(N) :
       /\ N[k] = 2
       /\ Get(N, <<k[1], "hit">>) = 1
       /\ Get(N, <<k[1], "stick">>) = 1

C15_GreedyArgmax ==
    (picked.called /\ ~picked.explored)
    => LET qh == Get(V, <<tstate, "hit">>)
           qs == Get(V, <<tstate, "stick">>)
       IN  /\ picked.action \in {"hit", "stick"}
           /\ picked.action = "hit" => qh >= qs
           /\ picked.action = "stick" => qs > qh

C15_Witness ==
    /\ picked.called
    /\ ~picked.explored
    /\ Get(V, <<tstate, "hit">>) = 0
    /\ Get(V, <<tstate, "stick">>) = 0
    /\ picked.ch = "stick"
    /\ picked.action = "hit"

\* the most draws that "a few dozen" is taken to allow
FewDozen == 3 * 12

\* C13 as stated: an episode makes at most a few dozen draws.
C13_DrawsBounded == draws <= FewDozen

\* C13: no constant bounds the draws of an episode; each draw is made by a
\* hit from a player total in 1..21 or by the dealer's loop from a dealer
\* total in 1..16, and moves that total by a card of 1..10 up or down, so a
\* total may come back to a value it had.
C13_DrawsOnlyInRange ==
    [][draws' # draws
       => /\ draws' = draws + 1
          /\ \/ /\ pc = "idle"
                /\ InPlay(state)
                /\ InRange(state.player)
                /\ (state'.player - state.player) \in Cards
                /\ state'.dealer = state.dealer
                /\ dealer' = dealer
             \/ /\ pc = "stick"
                /\ 1 <= dealer
                /\ dealer < DealerStick
                /\ (dealer' - dealer) \in Cards
                /\ state' = state]_vars

C13_Witness ==
    /\ draws > FewDozen
    /\ pc = "stick"
    /\ dealer = state.dealer
    /\ DealerDraws(dealer)

====
